---- MODULE Spec2Model ----
(***************************************************************************)
(* Model of cantools' Odin (JSON) CAN database loader,                     *)
(* src/cantools/database/can/formats/odin.py.                              *)
(*                                                                         *)
(* load_string is modelled as a state machine over its local variables;    *)
(* the helpers it calls (_get_value, _start_bit, _load_signal,             *)
(* _parse_signals, _load_message) are operators.  Python values are        *)
(* tagged records, a raised exception is a result record whose exc field   *)
(* names the exception class.                                              *)
(***************************************************************************)
EXTENDS Integers, Sequences, FiniteSets, TLC

\* ------------------------------------------------------------------------
\* Python / JSON values.  An ordered dict (a JSON object whose key order the
\* code iterates) is a sequence of items [k, v]; a dict that is only looked
\* up by key is a record.
\* ------------------------------------------------------------------------
None == [t |-> "None"]
PInt(n) == [t |-> "int", n |-> n]
PStr(s) == [t |-> "str", s |-> s]
PBool(b) == [t |-> "bool", b |-> b]
\* A list of strings (node names).
PList(l) == [t |-> "list", l |-> l]
PDict(d) == [t |-> "dict", d |-> d]
ODict(items) == [t |-> "odict", items |-> items]

\* A call's outcome: a returned value, or a raised exception.
Ok(v) == [exc |-> "", v |-> v]
Raise(e) == [exc |-> e]

\* The outcome of evaluating calls in program order: the first exception
\* raised, or "" when none is.
RECURSIVE FirstExc(_)
FirstExc(rs) ==
    IF rs = <<>> THEN ""
    ELSE IF Head(rs).exc # "" THEN Head(rs).exc
    ELSE FirstExc(Tail(rs))

\* Python truthiness, as used by "if x:".
Truthy(x) ==
    CASE x.t = "None" -> FALSE
      [] x.t = "int" -> x.n # 0
      [] x.t = "str" -> x.s # ""
      [] x.t = "bool" -> x.b
      [] x.t = "list" -> x.l # <<>>
      [] x.t = "dict" -> DOMAIN x.d # {}
      [] x.t = "odict" -> x.items # <<>>

\* The decimal strings the model's documents use, with their values; every
\* other string is not a number.
NumericStrings == {"0", "8"}
StrValue(s) == IF s = "0" THEN 0 ELSE 8

\* The operators below that stand for a call f(e) take the outcome of e: when
\* e raised, so does the call.

\* int(x): a number converts, a decimal string parses, any other string is a
\* ValueError, None and containers are a TypeError.
int(x) ==
    IF x.exc # "" THEN x
    ELSE CASE x.v.t = "int" -> Ok(x.v.n)
           [] x.v.t = "bool" -> Ok(IF x.v.b THEN 1 ELSE 0)
           [] x.v.t = "str" -> IF x.v.s \in NumericStrings
                               THEN Ok(StrValue(x.v.s))
                               ELSE Raise("ValueError")
           [] OTHER -> Raise("TypeError")

\* float(x): as int(x) on the integral values the model uses.
float(x) ==
    IF x.exc # "" THEN x
    ELSE CASE x.v.t = "int" -> Ok(x.v.n)
           [] x.v.t = "bool" -> Ok(IF x.v.b THEN 1 ELSE 0)
           [] x.v.t = "str" -> IF x.v.s \in NumericStrings
                               THEN Ok(StrValue(x.v.s))
                               ELSE Raise("ValueError")
           [] OTHER -> Raise("TypeError")

\* "key in element": a dict looks the key up, a string tests for a
\* substring (the strings of the model contain a field name only when they
\* equal it), a list tests membership, anything else is a TypeError.
Contains(element, key) ==
    CASE element.t = "dict" -> Ok(key \in DOMAIN element.d)
      [] element.t = "odict" ->
            Ok(\E i \in 1..Len(element.items) : element.items[i].k = key)
      [] element.t = "str" -> Ok(element.s = key)
      [] element.t = "list" ->
            Ok(\E i \in 1..Len(element.l) : element.l[i] = key)
      [] OTHER -> Raise("TypeError")

\* element[key] for a key that "key in element" found.
Subscript(element, key) ==
    CASE element.t = "dict" -> Ok(element.d[key])
      [] element.t = "odict" ->
            Ok(element.items[CHOOSE i \in 1..Len(element.items) :
                                 element.items[i].k = key].v)
      [] OTHER -> Raise("TypeError")

_get_value(element, key, default) ==
    LET found == Contains(element, key) IN
    IF found.exc # "" THEN found
    ELSE IF found.v THEN Subscript(element, key)
    ELSE Ok(default)

\* _start_bit with the bit counted from 8, not 7, within its byte.
_start_bit_from_8(offset, byte_order) ==
    IF byte_order = "big_endian"
    THEN IF offset.t = "int"
         THEN Ok(PInt(8 * (offset.n \div 8) + (8 - (offset.n % 8))))
         ELSE Raise("TypeError")
    ELSE Ok(offset)

_start_bit(offset, byte_order) ==
    IF byte_order = "big_endian"
    THEN IF offset.t = "int"
         THEN Ok(PInt(8 * (offset.n \div 8) + (7 - (offset.n % 8))))
         ELSE Raise("TypeError")
    ELSE Ok(offset)

\* OptInt with a value that is no number taken as None.
OptInt_lenient(x) ==
    IF x.exc # "" THEN x
    ELSE IF x.v = None \/ int(x).exc # "" THEN Ok(None)
    ELSE Ok(PInt(int(x).v))

\* "int(x) if x is not None else None"
OptInt(x) ==
    IF x.exc # "" THEN x
    ELSE IF x.v = None THEN Ok(None)
    ELSE IF int(x).exc # "" THEN int(x)
    ELSE Ok(PInt(int(x).v))

\* "labels = {}; for k, v in value_description.items(): labels[v] = k"
RECURSIVE InvertLoop(_, _)
InvertLoop(items, labels) ==
    IF items = <<>> THEN labels
    ELSE InvertLoop(Tail(items),
                    [x \in DOMAIN labels \cup {Head(items).v} |->
                        IF x = Head(items).v THEN Head(items).k ELSE labels[x]])

\* Lines 65-69: the label table inverted, or None when the table is falsy.
Labels(value_description) ==
    IF value_description.exc # "" THEN value_description
    ELSE IF Truthy(value_description.v)
    THEN IF value_description.v.t = "odict"
         THEN Ok(PDict(InvertLoop(value_description.v.items, <<>>)))
         ELSE Raise("AttributeError")
    ELSE Ok(None)

\* The Signal class: it stores its keyword arguments; a signal is neither a
\* multiplexer nor multiplexed until told otherwise.
Signal(kw) ==
    kw @@ [is_multiplexer |-> FALSE, multiplexer_ids |-> None,
           multiplexer_signal |-> None, is_multiplexed |-> FALSE]

_load_signal(signal_json, name) ==
    LET length == int(_get_value(signal_json, "width", PInt(1)))
        offset == OptInt(_get_value(signal_json, "start_position", None))
        signedness == _get_value(signal_json, "signedness", PStr("UNSIGNED"))
        endianness == _get_value(signal_json, "endianness", PStr("LITTLE"))
        byte_order == IF endianness.v = PStr("BIG") THEN "big_endian"
                      ELSE "little_endian"
        minimum == OptInt(_get_value(signal_json, "minimum", None))
        maximum == OptInt(_get_value(signal_json, "maximum", None))
        receivers == _get_value(signal_json, "receivers", PList(<<>>))
        slope == float(_get_value(signal_json, "scale", PInt(1)))
        unit == _get_value(signal_json, "units", None)
        intercept == float(_get_value(signal_json, "offset", PInt(0)))
        labels == Labels(_get_value(signal_json, "value_description", None))
        start == IF offset.exc # "" THEN offset
                 ELSE _start_bit(offset.v, byte_order)
        mux_id == OptInt(_get_value(signal_json, "mux_id", None))
        is_muxer == _get_value(signal_json, "is_muxer", None)
        exc == FirstExc(<<length, offset, signedness, endianness, minimum,
                          maximum, receivers, slope, unit, intercept, labels,
                          start, mux_id, is_muxer>>)
        signal == Signal([name |-> name,
                          start |-> start.v,
                          length |-> length.v,
                          receivers |-> receivers.v,
                          byte_order |-> byte_order,
                          is_signed |-> (signedness.v = PStr("SIGNED")),
                          scale |-> slope.v,
                          offset |-> intercept.v,
                          minimum |-> minimum.v,
                          maximum |-> maximum.v,
                          unit |-> unit.v,
                          choices |-> labels.v,
                          comment |-> None,
                          is_float |-> FALSE,
                          decimal |-> [scale |-> slope.v, offset |-> intercept.v]])
        muxed == IF mux_id.v # None
                 THEN [signal EXCEPT !.multiplexer_ids = PList(<<mux_id.v.n>>),
                                     !.is_multiplexed = TRUE]
                 ELSE signal
    IN  IF exc # "" THEN Raise(exc)
        ELSE IF is_muxer.v = PBool(TRUE) \/ is_muxer.v = PInt(1)
        THEN Ok([muxed EXCEPT !.is_multiplexer = TRUE])
        ELSE Ok(muxed)

\* "for name, signal in signals_json.items(): signals.append(...)": the
\* first signal that raises ends the loop.
RECURSIVE ParseLoop(_, _)
ParseLoop(items, signals) ==
    IF items = <<>> THEN Ok(signals)
    ELSE LET new_signal == _load_signal(Head(items).v, Head(items).k) IN
         IF new_signal.exc # "" THEN new_signal
         ELSE ParseLoop(Tail(items), Append(signals, new_signal.v))

_parse_signals(signals_json) ==
    IF signals_json.exc # "" THEN signals_json
    ELSE IF signals_json.v.t = "odict"
    THEN ParseLoop(signals_json.v.items, <<>>)
    ELSE IF signals_json.v.t = "dict" /\ DOMAIN signals_json.v.d = {}
    THEN Ok(<<>>)
    ELSE Raise("AttributeError")

\* utils.start_bit, the sort key and the base of the inferred length: the
\* signal's canonical start bit.
start_bit(data) == data.start

\* Insert x behind every element whose key is not greater: sorted() is
\* stable.
RECURSIVE Insert(_, _)
Insert(x, sorted) ==
    IF sorted = <<>> THEN <<x>>
    ELSE IF start_bit(x).n < start_bit(Head(sorted)).n THEN <<x>> \o sorted
    ELSE <<Head(sorted)>> \o Insert(x, Tail(sorted))

RECURSIVE SortLoop(_, _)
SortLoop(signals, sorted) ==
    IF signals = <<>> THEN sorted
    ELSE SortLoop(Tail(signals), Insert(Head(signals), sorted))

\* sorted(signals, key=start_bit): comparing a None key is a TypeError; one
\* element alone is never compared.
sorted_by_start_bit(signals) ==
    IF Len(signals) >= 2 /\ \E i \in 1..Len(signals) : start_bit(signals[i]) = None
    THEN Raise("TypeError")
    ELSE IF Len(signals) <= 1 THEN Ok(signals)
    ELSE Ok(SortLoop(signals, <<>>))

\* Lines 120-123: the name of the last signal that is a multiplexer.
RECURSIVE FindMultiplexer(_, _)
FindMultiplexer(signals, multiplexer) ==
    IF signals = <<>> THEN multiplexer
    ELSE FindMultiplexer(Tail(signals),
                         IF Head(signals).is_multiplexer
                         THEN PStr(Head(signals).name) ELSE multiplexer)

\* Lines 124-127: the multiplexed signals are given the multiplexer's name.
AssignMultiplexer(signals, multiplexer) ==
    IF Truthy(multiplexer)
    THEN [i \in 1..Len(signals) |->
            IF Truthy(signals[i].multiplexer_ids)
               /\ Len(signals[i].multiplexer_ids.l) > 0
            THEN [signals[i] EXCEPT !.multiplexer_signal = multiplexer]
            ELSE signals[i]]
    ELSE signals

\* Lines 129-136: the frame length, inferred from the signals for "auto".
ResolveLength(length, signals) ==
    IF length = PStr("auto")
    THEN IF signals # <<>>
         THEN LET ordered == sorted_by_start_bit(signals) IN
              IF ordered.exc # "" THEN ordered
              ELSE LET last_signal == ordered.v[Len(ordered.v)] IN
                   IF start_bit(last_signal) = None THEN Raise("TypeError")
                   ELSE Ok((start_bit(last_signal).n + last_signal.length + 7)
                           \div 8)
         ELSE Ok(0)
    ELSE int(Ok(length))

\* The Message class: it stores its keyword arguments.
Message(kw) == kw

\* Lines 119-148 of _load_message, given the signals line 117 parsed.
BuildMessage(message, name, bus_name, strict_, parsed) ==
    LET frame_id == int(_get_value(message, "message_id", PInt(0)))
        length == _get_value(message, "length_bytes", PStr("auto"))
        cycle_time == OptInt(_get_value(message, "cycle_time", None))
        senders == _get_value(message, "senders", PList(<<>>))
        send_type == _get_value(message, "send_type", None)
        early == FirstExc(<<frame_id, length, cycle_time, senders, send_type,
                            parsed>>)
    IN  IF early # "" THEN Raise(early)
        ELSE LET signals == AssignMultiplexer(parsed.v,
                                              FindMultiplexer(parsed.v, None))
                 resolved == ResolveLength(length.v, signals)
             IN  IF resolved.exc # "" THEN resolved
                 ELSE Ok(Message([frame_id |-> frame_id.v,
                                  is_extended_frame |-> FALSE,
                                  name |-> name,
                                  length |-> resolved.v,
                                  senders |-> senders.v,
                                  send_type |-> send_type.v,
                                  cycle_time |-> cycle_time.v,
                                  signals |-> signals,
                                  comment |-> None,
                                  bus_name |-> bus_name,
                                  strict |-> strict_]))

_load_message(message, name, bus_name, strict_) ==
    BuildMessage(message, name, bus_name, strict_,
                 _parse_signals(_get_value(message, "signals", PDict(<<>>))))

\* The InternalDatabase and Node classes: they store their arguments.
Node(name, comment) == [name |-> name, comment |-> comment]
InternalDatabase(messages_, nodes_, buses_, version) ==
    [messages |-> messages_, nodes |-> nodes_, buses |-> buses_,
     version |-> version]

\* obj[key]: a missing key of a dict is a KeyError; a list, a string, a
\* number or None cannot be subscripted by a string.
GetItem(obj, key) ==
    IF obj.exc # "" THEN obj
    ELSE CASE obj.v.t = "dict" -> IF key \in DOMAIN obj.v.d
                                  THEN Ok(obj.v.d[key])
                                  ELSE Raise("KeyError")
           [] obj.v.t = "odict" -> IF Contains(obj.v, key).v
                                   THEN Subscript(obj.v, key)
                                   ELSE Raise("KeyError")
           [] OTHER -> Raise("TypeError")

\* obj.items(): only a dict has it.
Items(obj) ==
    CASE obj.t = "odict" -> Ok(obj.items)
      [] obj.t = "dict" /\ DOMAIN obj.d = {} -> Ok(<<>>)
      [] OTHER -> Raise("AttributeError")

\* The elements set.update(x) adds: those of a list; a number or None is not
\* iterable.
Elements(x) ==
    CASE x.t = "list" -> Ok({x.l[i] : i \in 1..Len(x.l)})
      [] x.t = "None" \/ x.t = "int" \/ x.t = "bool" -> Raise("TypeError")

\* The loop over the signals left out: the receivers are not added.
UpdateReceivers_skipped(signals, nodes_) == Ok(nodes_)

\* "for signal in new_message.signals: nodes.update(signal.receivers)"
RECURSIVE UpdateReceivers(_, _)
UpdateReceivers(signals, nodes_) ==
    IF signals = <<>> THEN Ok(nodes_)
    ELSE LET more == Elements(Head(signals).receivers) IN
         IF more.exc # "" THEN more
         ELSE UpdateReceivers(Tail(signals), nodes_ \cup more.v)

\* list(nodes): the elements of the set, each once, in an order the set
\* chooses.
ListsOf(set) ==
    {l \in [1..Cardinality(set) -> set] : {l[i] : i \in DOMAIN l} = set}

ShapeError ==
    [exc |-> "ValueError",
     msg |-> "Expected \"messages\" and \"busMetadata\" at root of the Odin JSON file"]

\* ------------------------------------------------------------------------
\* The documents load_string is given.
\* ------------------------------------------------------------------------
MaxOffset == 16
MaxSignals == 2
MaxMuxSignals == 3
MaxLabels == 2
MaxMessages == 2
MaxBadMessages == 3

\* A JSON object with the one key, for each of the values; and without it.
Field(key, values) == {[k \in {key} |-> v] : v \in values}
Optional(key, values) == {[k \in {} |-> None]} \cup Field(key, values)

\* The sequences of at most n elements of a set, and those without a repeat.
Seqs(set, n) == UNION {[1..m -> set] : m \in 0..n}
DistinctSeqs(set, n) ==
    {q \in Seqs(set, n) : \A i, j \in DOMAIN q : q[i] = q[j] => i = j}

\* A signals object: the names, in order, with their records.
Named(names, records) ==
    ODict([i \in DOMAIN names |-> [k |-> names[i], v |-> records[i]]])

\* A document whose root holds "busMetadata" and the "messages" object.
Document(items) ==
    [kind |-> "json",
     root |-> PDict([messages |-> ODict(items),
                     busMetadata |-> PDict([k \in {} |-> None])])]

OneMessage(message) == Document(<<[k |-> "M1", v |-> PDict(message)]>>)

\* One message with one signal: every offset, byte order and length mode.
BitDocs ==
    {OneMessage(len @@ [message_id |-> PInt(1),
                        signals |-> Named(<<"S1">>,
                            <<PDict(pos @@ end @@ [width |-> PInt(8)])>>)]) :
        len \in Optional("length_bytes", {PStr("auto"), PInt(8)}),
        pos \in Optional("start_position", {PInt(o) : o \in 0..MaxOffset}),
        end \in Optional("endianness", {PStr("BIG"), PStr("LITTLE")})}

SignalName(i) == "S" \o ToString(i)

\* One message with up to MaxSignals little-endian signals placed freely.
PlacedSignals ==
    {PDict([start_position |-> PInt(o), width |-> PInt(w)]) :
        o \in {0, 8, 16}, w \in {1, 8, 24}}
LengthDocs ==
    {OneMessage(len @@ [signals |-> Named([i \in DOMAIN q |-> SignalName(i)], q)]) :
        len \in Optional("length_bytes", {PStr("auto"), PInt(2)}),
        q \in Seqs(PlacedSignals, MaxSignals)}

\* One message with up to MaxMuxSignals signals, each a multiplexer, a
\* multiplexed signal, both or neither, under every name and order.
SignalNames == {"", "A", "B", "C"}
MuxSignals ==
    {PDict(mux @@ id @@ [start_position |-> PInt(0)]) :
        mux \in Optional("is_muxer", {PBool(TRUE)}),
        id \in Optional("mux_id", {PInt(1)})}
MuxDocs ==
    {OneMessage([length_bytes |-> PInt(8), signals |-> Named(p[1], p[2])]) :
        p \in {p \in (DistinctSeqs(SignalNames, MaxMuxSignals) \ {<<>>})
                        \X Seqs(MuxSignals, MaxMuxSignals) :
                    Len(p[1]) = Len(p[2])}}

\* One signal with a label table of up to MaxLabels labels, or without one.
LabelNames == {"OFF", "ON", "AUTO"}
LabelTables ==
    {ODict([i \in DOMAIN p[1] |-> [k |-> p[1][i], v |-> PInt(p[2][i])]]) :
        p \in {p \in DistinctSeqs(LabelNames, MaxLabels) \X Seqs({0, 1}, MaxLabels) :
                    Len(p[1]) = Len(p[2])}}
ChoiceDocs ==
    {OneMessage([signals |-> Named(<<"S1">>,
                    <<PDict(table @@ [start_position |-> PInt(0)])>>)]) :
        table \in Optional("value_description", LabelTables)}

\* The "messages" objects: up to n messages, in order, and the bus name
\* entry "name" at any place among them, or nowhere.
BusNames == {PStr(""), PStr("bus0"), PStr("senders")}
MessageName(i) == "M" \o ToString(i)
MessageItems(q) == [i \in DOMAIN q |-> [k |-> MessageName(i), v |-> q[i]]]
InsertAt(q, at, item) == SubSeq(q, 1, at - 1) \o <<item>> \o SubSeq(q, at, Len(q))
Places == {<<0, PStr("")>>} \cup ((1..(MaxMessages + 1)) \X BusNames)
WithBusName(q, place) ==
    IF place[1] = 0 \/ place[1] > Len(q) + 1 THEN MessageItems(q)
    ELSE InsertAt(MessageItems(q), place[1], [k |-> "name", v |-> place[2]])

\* Messages that name their senders and their one signal's receivers.
NodeLists == {PList(<<"A", "B">>), PList(<<"C", "B", "B">>)}
SendingMessages ==
    {PDict(snd @@ [message_id |-> PInt(1),
                   signals |-> Named(<<"S1">>,
                        <<PDict(rcv @@ [start_position |-> PInt(0)])>>)]) :
        snd \in Optional("senders", NodeLists),
        rcv \in Optional("receivers", NodeLists)}
NodeDocs ==
    {Document(WithBusName(q, place)) :
        q \in Seqs(SendingMessages, MaxMessages), place \in Places}

\* Messages of two signals with at most one field that holds a value that
\* is no number: a word, or a list.
NotNumbers == {PStr("x"), PList(<<>>)}
GoodSignal == [start_position |-> PInt(0), width |-> PStr("8")]
BadSignals(bad) ==
    {PDict([k \in {key} |-> bad] @@ GoodSignal) :
        key \in {"width", "start_position", "minimum", "maximum", "scale",
                 "offset", "mux_id"}}
GoodMessage ==
    [message_id |-> PInt(1), senders |-> PList(<<"A">>),
     signals |-> Named(<<"S1", "S2">>, <<PDict(GoodSignal), PDict(GoodSignal)>>)]
BadMessages(bad) ==
    {PDict([k \in {key} |-> bad] @@ GoodMessage) :
        key \in {"message_id", "cycle_time", "length_bytes"}}
    \cup {PDict([signals |-> Named(<<"S1", "S2">>, <<PDict(GoodSignal), sig>>)]
                @@ GoodMessage) : sig \in BadSignals(bad)}
    \cup {PDict([signals |-> Named(<<"S1", "S2">>,
                    <<PDict([width |-> bad] @@ GoodSignal),
                      PDict(GoodSignal)>>)] @@ GoodMessage)}
BadDocsWith(bad) ==
    {Document(MessageItems(q)) :
        q \in Seqs({PDict(GoodMessage)} \cup BadMessages(bad), MaxBadMessages)}

\* Texts that are not JSON, JSON values that are no object, and objects
\* with any of the two root keys.
RootDocs ==
    {[kind |-> "malformed"]}
    \cup {[kind |-> "json", root |-> r] :
            r \in {None, PInt(0), PStr("messages"), PList(<<>>),
                   PList(<<"messages", "busMetadata">>)}}
    \cup {[kind |-> "json", root |-> PDict(m @@ b)] :
            m \in Optional("messages",
                    {ODict(<<>>), ODict(MessageItems(<<PDict(GoodMessage)>>)), None}),
            b \in Optional("busMetadata", {PDict([k \in {} |-> None]), None})}

\* ------------------------------------------------------------------------
\* load_string(string, strict)
\* ------------------------------------------------------------------------
VARIABLES string, strict, pc, messages_json, nodes, bus, buses, messages,
          remaining, result

vars == <<string, strict, pc, messages_json, nodes, bus, buses, messages,
          remaining, result>>

\* A document of one of the families; the small families are loaded with
\* strict false as well as true.
Init ==
    /\ \/ string \in RootDocs /\ strict \in BOOLEAN
       \/ string \in ChoiceDocs /\ strict \in BOOLEAN
       \/ string \in LengthDocs /\ strict \in BOOLEAN
       \/ string \in BitDocs /\ strict = TRUE
       \/ string \in MuxDocs /\ strict = TRUE
       \/ string \in NodeDocs /\ strict = TRUE
       \/ \E bad \in NotNumbers : string \in BadDocsWith(bad) /\ strict = TRUE
    /\ pc = "start"
    /\ messages_json = None
    /\ nodes = {}
    /\ bus = None
    /\ buses = <<>>
    /\ messages = <<>>
    /\ remaining = <<>>
    /\ result = None

\* Lines 156-163: json.loads and the two root keys; a KeyError becomes the
\* ValueError that names them, any other exception passes through.
Parse ==
    /\ pc = "start"
    /\ LET odin == IF string.kind = "json" THEN Ok(string.root)
                   ELSE Raise("JSONDecodeError")
           messages_ == GetItem(odin, "messages")
           bus_json == GetItem(odin, "busMetadata")
           exc == FirstExc(<<odin, messages_, bus_json>>)
       IN  IF exc = ""
           THEN /\ messages_json' = messages_.v
                /\ pc' = "setup"
                /\ result' = result
           ELSE /\ messages_json' = messages_json
                /\ pc' = "raised"
                /\ result' = IF exc = "KeyError" THEN ShapeError ELSE Raise(exc)
    /\ UNCHANGED <<string, strict, nodes, bus, buses, messages, remaining>>

\* Lines 165-175: the bus name, the bus list, and the start of the loop.
Setup ==
    /\ pc = "setup"
    /\ LET named == Contains(messages_json, "name")
           found == IF named.exc # "" THEN named
                    ELSE IF named.v THEN GetItem(Ok(messages_json), "name")
                    ELSE Ok(None)
           items == Items(messages_json)
           exc == FirstExc(<<named, found, items>>)
       IN  IF exc = ""
           THEN /\ bus' = found.v
                /\ buses' = IF Truthy(found.v) THEN <<found.v>> ELSE <<>>
                /\ remaining' = items.v
                /\ pc' = "loop"
                /\ result' = result
           ELSE /\ UNCHANGED <<bus, buses, remaining>>
                /\ pc' = "raised"
                /\ result' = Raise(exc)
    /\ nodes' = {}
    /\ messages' = <<>>
    /\ UNCHANGED <<string, strict, messages_json>>

\* Lines 177-180: the nodes of the new message, and the message kept.
Accumulate(new_message) ==
    LET senders == IF new_message.exc # "" THEN new_message
                   ELSE Elements(new_message.v.senders)
        updated == IF FirstExc(<<new_message, senders>>) # ""
                   THEN Raise(FirstExc(<<new_message, senders>>))
                   ELSE UpdateReceivers(new_message.v.signals,
                                        nodes \cup senders.v)
    IN  IF updated.exc = ""
        THEN /\ nodes' = updated.v
             /\ messages' = Append(messages, new_message.v)
             /\ remaining' = Tail(remaining)
             /\ UNCHANGED <<pc, result>>
        ELSE /\ pc' = "raised"
             /\ result' = Raise(updated.exc)
             /\ UNCHANGED <<nodes, messages, remaining>>

\* Lines 175-180: one turn of the loop over messages_json.items().
LoopBody ==
    /\ pc = "loop"
    /\ remaining # <<>>
    /\ Accumulate(_load_message(Head(remaining).v, Head(remaining).k, bus,
                                strict))
    /\ UNCHANGED <<string, strict, messages_json, bus, buses>>

\* Lines 182-190: the nodes as a list, and the database returned.
Return ==
    /\ pc = "loop"
    /\ remaining = <<>>
    /\ \E listed \in ListsOf(nodes) :
          result' = Ok(InternalDatabase(
                          messages,
                          [i \in DOMAIN listed |-> Node(listed[i], None)],
                          buses,
                          "0"))
    /\ pc' = "returned"
    /\ UNCHANGED <<string, strict, messages_json, nodes, bus, buses, messages,
                   remaining>>

Next == Parse \/ Setup \/ LoopBody \/ Return

Spec == Init /\ [][Next]_vars

\* ------------------------------------------------------------------------
\* Properties.
\* ------------------------------------------------------------------------
Returned == pc = "returned"
Raised == pc = "raised"
Db == result.v

\* The entries of the document's "messages" object, and the signal entries
\* of one of them.
RawItems == string.root.d.messages.items
RawSignals(raw) ==
    IF raw.t = "dict" /\ "signals" \in DOMAIN raw.d THEN raw.d.signals.items
    ELSE <<>>
HasKey(raw, key) == raw.t = "dict" /\ key \in DOMAIN raw.d

\* The big-endian start bits section 8 of the specification lists.
BigEndianTable ==
    (0 :> 7) @@ (1 :> 6) @@ (7 :> 0) @@ (8 :> 15) @@ (9 :> 14) @@ (15 :> 8)
    @@ (16 :> 23)

\* C1: in every database returned, a signal given at offset o starts at
\* 8*floor(o/8) + (7 - (o mod 8)) when its endianness is BIG (7, 6, 0, 15,
\* 14, 8, 23 for o = 0, 1, 7, 8, 9, 15, 16) and at o otherwise.
C1_StartBitCanonical ==
    Returned =>
        \A i \in DOMAIN Db.messages :
            \A j \in DOMAIN Db.messages[i].signals :
                LET raw == RawSignals(RawItems[i].v)[j].v
                    built == Db.messages[i].signals[j]
                    big == HasKey(raw, "endianness")
                           /\ raw.d.endianness = PStr("BIG")
                IN  (HasKey(raw, "start_position")
                     /\ raw.d.start_position.t = "int") =>
                        LET o == raw.d.start_position.n IN
                        /\ built.byte_order =
                              (IF big THEN "big_endian" ELSE "little_endian")
                        /\ ~big => built.start = PInt(o)
                        /\ big => built.start.n = 8 * (o \div 8) + (7 - (o % 8))
                        /\ (big /\ o \in DOMAIN BigEndianTable) =>
                              built.start = PInt(BigEndianTable[o])

\* A database holding a big-endian signal given at offset 9, which starts
\* at bit 14.
C1_Witness ==
    /\ Returned
    /\ \E i \in DOMAIN Db.messages :
          \E j \in DOMAIN Db.messages[i].signals :
              /\ RawSignals(RawItems[i].v)[j].v.d.start_position = PInt(9)
              /\ Db.messages[i].signals[j].byte_order = "big_endian"
              /\ Db.messages[i].signals[j].start = PInt(14)

\* The length a message's raw record asks to be inferred.
RawLengthAuto(raw) ==
    \/ ~HasKey(raw, "length_bytes")
    \/ raw.d.length_bytes = PStr("auto")

\* C2: in every database returned, a message whose length_bytes is absent
\* or "auto" has the least length, in bytes, that holds start + length bits
\* for every one of its signals, and length 0 when it has no signal.
C2_InferredLengthCoversSignals ==
    Returned =>
        \A i \in DOMAIN Db.messages :
            LET m == Db.messages[i] IN
            RawLengthAuto(RawItems[i].v) =>
                /\ \A j \in DOMAIN m.signals :
                      8 * m.length >= m.signals[j].start.n + m.signals[j].length
                /\ \/ m.length = 0
                   \/ \E j \in DOMAIN m.signals :
                         8 * (m.length - 1)
                            < m.signals[j].start.n + m.signals[j].length

\* The name of the last signal of a message that is a multiplexer, or None.
LastMultiplexer(signals) ==
    LET at == {j \in DOMAIN signals : signals[j].is_multiplexer} IN
    IF at = {} THEN None
    ELSE PStr(signals[CHOOSE j \in at : \A k \in at : k <= j].name)

\* C3: in every database returned, the signals of a message that have
\* multiplexer_ids carry the name of the message's last multiplexer signal,
\* whatever that name is, and no name when the message has no multiplexer;
\* the signals without multiplexer_ids carry none.
C3_MultiplexerAssigned ==
    Returned =>
        \A i \in DOMAIN Db.messages :
            LET signals == Db.messages[i].signals IN
            \A j \in DOMAIN signals :
                signals[j].multiplexer_signal =
                    (IF signals[j].multiplexer_ids # None
                     THEN LastMultiplexer(signals) ELSE None)

\* The document is JSON and its root does not hold both keys.
LacksRootKey ==
    /\ string.kind = "json"
    /\ \/ string.root.t # "dict"
       \/ "messages" \notin DOMAIN string.root.d
       \/ "busMetadata" \notin DOMAIN string.root.d

\* C4: the load of a JSON document whose root lacks "messages" or
\* "busMetadata" ends with the error that names the two keys and returns
\* nothing; a text that is not JSON ends with another error.
C4_ShapeError ==
    /\ (LacksRootKey /\ pc # "start") => (Raised /\ result = ShapeError)
    /\ (string.kind = "malformed" /\ pc # "start") =>
            (Raised /\ result # ShapeError)

\* The entries of the "messages" object other than the bus name.
RECURSIVE MessageEntries(_)
MessageEntries(items) ==
    IF items = <<>> THEN <<>>
    ELSE IF Head(items).k = "name" THEN MessageEntries(Tail(items))
    ELSE <<Head(items)>> \o MessageEntries(Tail(items))

\* C5: in every database returned, the messages are those of the entries of
\* the "messages" object other than "name", one each, in their order.
C5_OneMessagePerEntry ==
    Returned =>
        /\ Len(Db.messages) = Len(MessageEntries(RawItems))
        /\ \A i \in DOMAIN Db.messages :
              Db.messages[i].name = MessageEntries(RawItems)[i].k

\* The senders of the messages and the receivers of their signals.
Participants(built) ==
    UNION {{m.senders.l[k] : k \in DOMAIN m.senders.l}
           \cup UNION {{s.receivers.l[k] : k \in DOMAIN s.receivers.l} :
                        s \in {m.signals[j] : j \in DOMAIN m.signals}} :
           m \in {built[i] : i \in DOMAIN built}}

\* C6: in every database returned, the nodes are the senders of the messages
\* and the receivers of their signals, each once.
C6_NodesAreParticipants ==
    Returned =>
        /\ {Db.nodes[i].name : i \in DOMAIN Db.nodes} = Participants(Db.messages)
        /\ \A i, j \in DOMAIN Db.nodes :
              Db.nodes[i].name = Db.nodes[j].name => i = j

\* A database of three nodes from two messages that name a node twice.
C6_Witness ==
    /\ Returned
    /\ Len(Db.messages) >= 2
    /\ Len(Db.nodes) = 3
    /\ \E i \in DOMAIN Db.messages :
          Db.messages[i].signals # <<>>
          /\ Db.messages[i].signals[1].receivers = PList(<<"C", "B", "B">>)
    /\ \E i \in DOMAIN Db.messages : Db.messages[i].senders = PList(<<"A", "B">>)

\* C7: in every database returned, the buses are the one value of the
\* "name" key of the "messages" object, whatever it is, and every message
\* carries it as bus_name; without the key there is no bus and no bus_name.
C7_BusName ==
    Returned =>
        LET named == {i \in DOMAIN RawItems : RawItems[i].k = "name"} IN
        /\ named # {} =>
              \A i \in named :
                  /\ Db.buses = <<RawItems[i].v>>
                  /\ \A k \in DOMAIN Db.messages :
                        Db.messages[k].bus_name = RawItems[i].v
        /\ named = {} =>
              /\ Db.buses = <<>>
              /\ \A k \in DOMAIN Db.messages : Db.messages[k].bus_name = None
        /\ Len(Db.buses) <= 1

\* A value that is no number: a string that is not a decimal, or a list.
NoNumber(x) == (x.t = "str" /\ x.s \notin {"0", "8"}) \/ x.t = "list"
MessageNumbers == {"message_id", "cycle_time"}
SignalNumbers ==
    {"width", "start_position", "minimum", "maximum", "scale", "offset", "mux_id"}

\* Some numeric field of the document holds a value that is no number.
HasBadNumber ==
    /\ string.kind = "json"
    /\ HasKey(string.root, "messages")
    /\ string.root.d.messages.t = "odict"
    /\ \E i \in DOMAIN RawItems :
          LET raw == RawItems[i].v IN
          \/ \E key \in MessageNumbers : HasKey(raw, key) /\ NoNumber(raw.d[key])
          \/ /\ HasKey(raw, "length_bytes")
             /\ NoNumber(raw.d.length_bytes)
             /\ raw.d.length_bytes # PStr("auto")
          \/ \E j \in DOMAIN RawSignals(raw) :
                \E key \in SignalNumbers :
                    /\ HasKey(RawSignals(raw)[j].v, key)
                    /\ NoNumber(RawSignals(raw)[j].v.d[key])

OmitsStartPosition ==
    /\ string.kind = "json"
    /\ HasKey(string.root, "messages")
    /\ string.root.d.messages.t = "odict"
    /\ \E i \in DOMAIN RawItems :
          \E j \in DOMAIN RawSignals(RawItems[i].v) :
              ~HasKey(RawSignals(RawItems[i].v)[j].v, "start_position")

\* C9: the load of a document with a signal that has no "start_position"
\* never returns, and every signal of a database returned starts at a bit
\* that is a number, not below 0.
C9_MissingStartIsFatal ==
    /\ OmitsStartPosition => ~Returned
    /\ Returned =>
          \A i \in DOMAIN Db.messages :
              \A j \in DOMAIN Db.messages[i].signals :
                  /\ Db.messages[i].signals[j].start.t = "int"
                  /\ Db.messages[i].signals[j].start.n >= 0

\* C10: in every database returned, the choices of a signal with a
\* "value_description" table are the table inverted: its keys are the raw
\* values of the table, each with the last label the table gives it; a
\* signal without a table has no choices.
C10_ChoicesInverted ==
    Returned =>
        \A i \in DOMAIN Db.messages :
            \A j \in DOMAIN Db.messages[i].signals :
                LET raw == RawSignals(RawItems[i].v)[j].v
                    choices == Db.messages[i].signals[j].choices
                IN  IF HasKey(raw, "value_description")
                    THEN LET table == raw.d.value_description.items IN
                         /\ choices.t = "dict"
                         /\ DOMAIN choices.d = {table[k].v : k \in DOMAIN table}
                         /\ \A k \in DOMAIN table :
                               (\A l \in DOMAIN table :
                                    table[l].v = table[k].v => l <= k)
                               => choices.d[table[k].v] = table[k].k
                    ELSE choices = None

====
